---- MODULE Spec2Model ----
(***************************************************************************)
(* key-forward: a one-shot command line tool that synthesizes one fake X11 *)
(* key or mouse-button event through XTest, or dumps the keymap.           *)
(*                                                                         *)
(* The X client library is the environment.  Every call the program makes  *)
(* into it is appended to xlog (the call, its arguments, its result), so   *)
(* xlog is what a test double of the library would record.  Answers of the *)
(* library that depend on the server (does the display open, the keycode   *)
(* interval, the keymap) are chosen nondeterministically when the call is  *)
(* made and then kept for the lifetime of the connection.                  *)
(*                                                                         *)
(* Strings are sequences of bytes.  Integers are exact as long as they fit *)
(* the source's types; values the model checker cannot hold (>= 2^31) are  *)
(* kept out of the sample sets and decimal overflow is decided on digits.  *)
(***************************************************************************)
EXTENDS Integers, Sequences, FiniteSets, TLC

\* ------------------------------------------------------------------ bounds
\* Largest keycode the modelled server may report as max_keycode.
MaxKeycode == 10
\* Number of operations a library client performs on one Display (SpecApi).
MaxCalls == 2

\* --------------------------------------------------------------- utilities
Option(v) == [some |-> TRUE, v |-> v]
None == [some |-> FALSE, v |-> <<>>]
NoU32 == [some |-> FALSE, v |-> 0]

X(f, arg, ret) == [f |-> f, arg |-> arg, ret |-> ret]

Count(log, f) == Len(SelectSeq(log, LAMBDA e : e.f = f))

\* ------------------------------------------------------- sampled inputs
\* "a", "Up", "??" (not a keysym name), "a\0b" (interior NUL)
NameA == <<97>>
NameUp == <<85, 112>>
NameBogus == <<63, 63>>
NameNul == <<97, 0, 98>>
\* names that can arrive through argv (the OS passes NUL-terminated strings)
ArgvKeyNames == {NameA, NameUp, NameBogus}
\* names a caller of the library function may pass
ApiKeyNames == ArgvKeyNames \cup {NameNul}

\* values of --mouse: "0" "5" "10" "11" "+5" "007" "" "x" "1x" "-1"
\* "4294967296"
MouseArgs ==
    { <<48>>, <<53>>, <<49, 48>>, <<49, 49>>, <<43, 53>>, <<48, 48, 55>>,
      <<>>, <<120>>, <<49, 120>>, <<45, 49>>,
      <<52, 50, 57, 52, 57, 54, 55, 50, 57, 54>> }

\* button indexes a caller of the library function may pass
ApiButtons == {0, 1, 10, 11, 12, 1000}

ButtonStates == {"Pressed", "Released"}

\* keycode intervals a server may report (the protocol has min >= 8)
ServerRanges == {r \in (8..MaxKeycode) \X (8..MaxKeycode) : r[1] <= r[2]}
\* KeyCode is a u8; 0 is what the library answers for an unbound keysym
KeycodeVals == {0} \cup (7..(MaxKeycode + 1))

\* keysyms: "a", "Up", one without a name, one whose name is not UTF-8
KeysymA == 97
KeysymUp == 65362
KeysymNameless == 16777000
KeysymBadName == 16777001

\* --------------------------------------------------- the library's tables
NoSymbol == 0

\* XStringToKeysym: a static table lookup, NoSymbol for an unknown name
XStringToKeysym(name) ==
    CASE name = NameA -> KeysymA
      [] name = NameUp -> KeysymUp
      [] OTHER -> NoSymbol

\* XKeysymToString: a pointer to the name, or NULL
NULL == [null |-> TRUE, s |-> <<>>]
Ptr(s) == [null |-> FALSE, s |-> s]

XKeysymToString(keysym) ==
    CASE keysym = KeysymA -> Ptr(NameA)
      [] keysym = KeysymUp -> Ptr(NameUp)
      [] keysym = KeysymBadName -> Ptr(<<255>>)
      [] OTHER -> NULL

\* keysyms a keycode may carry in column 0
KeysymVals == {NoSymbol, KeysymA, KeysymUp, KeysymNameless, KeysymBadName}

\* ------------------------------------------------------------ conversions
\* CString::new(key): an error when key holds an interior NUL byte
CStringNew(key) == \A i \in 1..Len(key) : key[i] # 0

\* `keysym as i32`: a KeySym is at most 29 bits wide, so the low 32 bits
\* read as i32 are the value itself
KeysymAsI32(keysym) == keysym

\* `n as u8`
AsU8(n) == n % 256

\* CStr::to_str: UTF-8 validation
RECURSIVE Utf8From(_, _)
Utf8From(s, i) ==
    LET cont(j) == j <= Len(s) /\ s[j] >= 128 /\ s[j] <= 191
    IN  IF i > Len(s) THEN TRUE
        ELSE IF s[i] < 128 THEN Utf8From(s, i + 1)
        ELSE IF s[i] >= 194 /\ s[i] <= 223
             THEN cont(i + 1) /\ Utf8From(s, i + 2)
        ELSE IF s[i] >= 224 /\ s[i] <= 239
             THEN /\ cont(i + 1) /\ cont(i + 2)
                  /\ (s[i] = 224 => s[i + 1] >= 160)
                  /\ (s[i] = 237 => s[i + 1] <= 159)
                  /\ Utf8From(s, i + 3)
        ELSE IF s[i] >= 240 /\ s[i] <= 244
             THEN /\ cont(i + 1) /\ cont(i + 2) /\ cont(i + 3)
                  /\ (s[i] = 240 => s[i + 1] >= 144)
                  /\ (s[i] = 244 => s[i + 1] <= 143)
                  /\ Utf8From(s, i + 4)
        ELSE FALSE

to_str(s) == Utf8From(s, 1)

\* u32::from_str on the value of --mouse
IsDigit(b) == b >= 48 /\ b <= 57

RECURSIVE StripZeros(_)
StripZeros(s) ==
    IF Len(s) > 1 /\ s[1] = 48 THEN StripZeros(Tail(s)) ELSE s

RECURSIVE DigitsValue(_)
DigitsValue(s) ==
    IF s = <<>> THEN 0
    ELSE DigitsValue(SubSeq(s, 1, Len(s) - 1)) * 10 + (s[Len(s)] - 48)

\* digits of u32::MAX, 4294967295
U32MaxDigits == <<52, 50, 57, 52, 57, 54, 55, 50, 57, 53>>

RECURSIVE DigitsLeq(_, _)
DigitsLeq(s, t) ==
    IF s = <<>> THEN TRUE
    ELSE IF s[1] # t[1] THEN s[1] < t[1]
    ELSE DigitsLeq(Tail(s), Tail(t))

FitsU32(digits) ==
    LET d == StripZeros(digits)
    IN  \/ Len(d) < Len(U32MaxDigits)
        \/ Len(d) = Len(U32MaxDigits) /\ DigitsLeq(d, U32MaxDigits)

ParseU32(s) ==
    LET digits == IF s # <<>> /\ s[1] = 43 THEN Tail(s) ELSE s
    IN  IF /\ digits # <<>>
           /\ \A i \in 1..Len(digits) : IsDigit(digits[i])
           /\ FitsU32(digits)
        THEN Option(DigitsValue(digits))
        ELSE NoU32

\* ------------------------------------------------------------- the state
VARIABLES
    argv,      \* the command line: key, mouse (raw text), release, dump
    opts,      \* Opts as parsed by from_args
    pc,        \* position of the process
    display,   \* the Display value: "none", "open", "dropped"
    srvRange,  \* <<min_keycode, max_keycode>> of the connected server
    symkc,     \* keysym -> keycode answers given on this connection
    kcsym,     \* keycode -> keysym answers given on this connection
    xlog,      \* every call made into the X library, in order
    calls,     \* the Display operations performed, each with its X calls
    stdout,    \* lines printed
    result,    \* what main returned or how the process stopped
    exitCode   \* process exit status, -1 while running

vars == <<argv, opts, pc, display, srvRange, symkc, kcsym, xlog, calls,
          stdout, result, exitCode>>

EmptyMap == [k \in {} |-> 0]

\* ---------------------------------------------------------- Opts (clap)
\* which of the arguments named `names` (or `name`) occur on the command line
Present(a, name) ==
    CASE name = "key" -> a.key.some
      [] name = "mouse" -> a.mouse.some
      [] name = "dump" -> a.dump

\* variant: the rule is not enforced, nothing is ever required
RequiredNever(a, self, names) == TRUE

\* required_unless_one(names): the argument must occur unless one of names does
RequiredUnlessOne(a, self, names) ==
    Present(a, self) \/ \E n \in names : Present(a, n)

\* variant: the rule is not enforced, nothing ever conflicts
ConflictsIgnored(a, self, names) == TRUE

\* conflicts_with_all(names): the argument may not occur together with any
ConflictsWithAll(a, self, names) ==
    Present(a, self) => \A n \in names : ~Present(a, n)

\* the rules of the three arguments, and the u32 value of --mouse
OptsValid(a) ==
    /\ RequiredUnlessOne(a, "key", {"mouse", "dump"})
    /\ ConflictsWithAll(a, "key", {"mouse", "dump"})
    /\ RequiredUnlessOne(a, "mouse", {"key", "dump"})
    /\ ConflictsWithAll(a, "mouse", {"key", "dump"})
    /\ RequiredUnlessOne(a, "dump", {"key", "mouse"})
    /\ ConflictsWithAll(a, "dump", {"key", "mouse"})
    /\ a.mouse.some => ParseU32(a.mouse.v).some

OptsOf(a) ==
    [key |-> a.key,
     mouse_button |-> IF a.mouse.some THEN ParseU32(a.mouse.v) ELSE NoU32,
     release |-> a.release,
     dump |-> a.dump]

NoOpts == [key |-> None, mouse_button |-> NoU32, release |-> FALSE, dump |-> FALSE]
NoArgv == [key |-> None, mouse |-> None, release |-> FALSE, dump |-> FALSE]

Argvs ==
    [key : {None} \cup {Option(k) : k \in ArgvKeyNames},
     mouse : {None} \cup {Option(m) : m \in MouseArgs},
     release : BOOLEAN,
     dump : BOOLEAN]

\* --------------------------------------------------------------- Display
\* Display::new: the X calls and whether a Display was built
DisplayNew(opened) ==
    [x |-> <<X("XOpenDisplay", <<>>, <<IF opened THEN 1 ELSE 0>>)>>,
     res |-> IF opened THEN "Ok" ELSE "ConnectionError"]

\* keycode_range: XDisplayKeycodes, then min..=max
keycode_range(range) ==
    [x |-> <<X("XDisplayKeycodes", <<>>, range)>>, lo |-> range[1], hi |-> range[2]]

\* variant: only the upper end of the interval is tested
RangeContainsUpperOnly(r, v) == v <= r.hi

RangeContains(r, v) == r.lo <= v /\ v <= r.hi

\* flush
flush == <<X("XFlush", <<>>, <<>>)>>

\* variant: the handle is never closed
dropLeaks == <<>>

\* drop
drop == <<X("XCloseDisplay", <<>>, <<>>)>>

\* variant: the two transitions swapped
PressedArgSwapped(state) == IF state = "Pressed" THEN 0 ELSE 1

\* match state { Pressed => 1, Released => 0 }
PressedArg(state) == IF state = "Pressed" THEN 1 ELSE 0

\* variant: the failure value taken to be negative
IsNoSymbolNegative(keysym) == KeysymAsI32(keysym) < NoSymbol

\* keysym as i32 == xlib::NoSymbol
IsNoSymbol(keysym) == KeysymAsI32(keysym) = NoSymbol

\* XKeysymToKeycode on this connection: the answer already given, or any u8
XKeysymToKeycode(km, keysym) ==
    IF keysym \in DOMAIN km THEN {km[keysym]} ELSE KeycodeVals

Remember(km, k, v) == [j \in DOMAIN km \cup {k} |-> IF j = k THEN v ELSE km[j]]

\* send_key: the set of outcomes [res, x, km], one per answer of the server
send_key(key, state, range, km) ==
    IF ~CStringNew(key)
    THEN {[res |-> "NulError", x |-> <<>>, km |-> km]}
    ELSE
      LET keysym == XStringToKeysym(key)
          x1 == <<X("XStringToKeysym", key, <<keysym>>)>>
      IN  IF IsNoSymbol(keysym)
          THEN {[res |-> "KeyNotFound", x |-> x1, km |-> km]}
          ELSE
            { LET x2 == x1 \o <<X("XKeysymToKeycode", <<keysym>>, <<keycode>>)>>
                  r == keycode_range(range)
                  x3 == x2 \o r.x
              IN  IF ~RangeContains(r, keycode)
                  THEN [res |-> "KeycodeNotFound", x |-> x3,
                        km |-> Remember(km, keysym, keycode)]
                  ELSE [res |-> "Ok",
                        x |-> x3 \o <<X("XTestFakeKeyEvent",
                                        <<keycode, PressedArg(state)>>, <<>>)>>
                                 \o flush,
                        km |-> Remember(km, keysym, keycode)]
              : keycode \in XKeysymToKeycode(km, keysym) }

\* button > 10
MaxButton == 10
\* variant: off by one, button 10 refused
ButtonTooLargeOffByOne(button) == button >= MaxButton

ButtonTooLarge(button) == button > MaxButton

\* variant: the flush is issued before the event instead of after it
send_buttonFlushFirst(button, state) ==
    IF ButtonTooLarge(button)
    THEN [res |-> "ButtonOutOfRange", x |-> <<>>]
    ELSE [res |-> "Ok",
          x |-> flush \o
                <<X("XTestFakeButtonEvent", <<button, PressedArg(state)>>, <<>>)>>]

\* send_button: [res, x]
send_button(button, state) ==
    IF ButtonTooLarge(button)
    THEN [res |-> "ButtonOutOfRange", x |-> <<>>]
    ELSE [res |-> "Ok",
          x |-> <<X("XTestFakeButtonEvent", <<button, PressedArg(state)>>, <<>>)>>
                \o flush]

\* variant: the half-open range min..max
RangeSeqExclusive(r) == [i \in 1..(IF r.hi > r.lo THEN r.hi - r.lo ELSE 0) |-> r.lo + i - 1]

\* the keycodes dump's for loop visits, in order
RangeSeq(r) == [i \in 1..(IF r.hi >= r.lo THEN r.hi - r.lo + 1 ELSE 0) |-> r.lo + i - 1]

\* one iteration of dump's loop for keycode n: [x, out]
DumpOne(n, ks) ==
    LET keysym == ks[AsU8(n)]
        name == XKeysymToString(keysym)
        x == << X("XKeycodeToKeysym", <<AsU8(n), 0>>, <<keysym>>),
                X("XKeysymToString", <<keysym>>,
                  IF name.null THEN <<0>> ELSE <<1>> \o name.s) >>
    IN  [x |-> x,
         out |-> IF name.null THEN <<>>
                 ELSE IF to_str(name.s) THEN <<name.s>> ELSE <<>>]

RECURSIVE DumpLoop(_, _, _)
DumpLoop(ns, i, ks) ==
    IF i > Len(ns) THEN [x |-> <<>>, out |-> <<>>]
    ELSE LET one == DumpOne(ns[i], ks)
             rest == DumpLoop(ns, i + 1, ks)
         IN  [x |-> one.x \o rest.x, out |-> one.out \o rest.out]

\* dump with the keymap ks: [x, out]
dump(range, ks) ==
    LET r == keycode_range(range)
        loop == DumpLoop(RangeSeq(r), 1, ks)
    IN  [x |-> r.x \o loop.x, out |-> loop.out]

\* the keymaps a server with the interval range may have
Keymaps(range) == [range[1]..range[2] -> KeysymVals]

\* ------------------------------------------------------------ the process
\* variant: the error is dropped, the status is always 0
ExitCodeAlwaysZero(res) == 0

\* exit status of the process for what main returned
ExitCode(res) ==
    IF res = "Ok" THEN 0 ELSE IF res = "Panic" THEN 101 ELSE 1

Call(op, arg, state, res, x) ==
    [op |-> op, arg |-> arg, state |-> state, res |-> res, x |-> x]

Init ==
    /\ argv \in Argvs
    /\ opts = NoOpts
    /\ pc = "from_args"
    /\ display = "none"
    /\ srvRange = <<0, 0>>
    /\ symkc = EmptyMap
    /\ kcsym = EmptyMap
    /\ xlog = <<>>
    /\ calls = <<>>
    /\ stdout = <<>>
    /\ result = "none"
    /\ exitCode = -1

\* Opts::from_args(): on a usage error the parser prints it and exits
FromArgs ==
    /\ pc = "from_args"
    /\ IF OptsValid(argv)
       THEN /\ opts' = OptsOf(argv)
            /\ pc' = "new"
            /\ UNCHANGED <<result, exitCode>>
       ELSE /\ pc' = "exited"
            /\ result' = "ArgumentError"
            /\ exitCode' = ExitCode("ArgumentError")
            /\ UNCHANGED opts
    /\ UNCHANGED <<argv, display, srvRange, symkc, kcsym, xlog, calls, stdout>>

\* let mut display = Display::new()?;
MainDisplayNew ==
    /\ pc = "new"
    /\ \E opened \in BOOLEAN :
         LET d == DisplayNew(opened)
         IN  /\ xlog' = xlog \o d.x
             /\ IF d.res = "Ok"
                THEN /\ display' = "open"
                     /\ srvRange' \in ServerRanges
                     /\ pc' = "run"
                     /\ UNCHANGED <<result, exitCode>>
                ELSE /\ result' = d.res
                     /\ exitCode' = ExitCode(d.res)
                     /\ pc' = "done"
                     /\ UNCHANGED <<display, srvRange>>
    /\ UNCHANGED <<argv, opts, symkc, kcsym, calls, stdout>>

\* if opts.dump { display.dump(); }
MainDump ==
    /\ pc = "run"
    /\ opts.dump
    /\ \E ks \in Keymaps(srvRange) :
         LET d == dump(srvRange, ks)
         IN  /\ xlog' = xlog \o d.x
             /\ stdout' = stdout \o d.out
             /\ kcsym' = ks
             /\ calls' = Append(calls, Call("dump", <<>>, "none", "Ok", d.x))
    /\ result' = "Ok"
    /\ pc' = "drop"
    /\ UNCHANGED <<argv, opts, display, srvRange, symkc, exitCode>>

\* else { let state = ...; match (&opts.key, &opts.mouse_button) { ... } }
MainMatch ==
    /\ pc = "run"
    /\ ~opts.dump
    /\ LET state == IF opts.release THEN "Released" ELSE "Pressed"
       IN  IF opts.key.some /\ ~opts.mouse_button.some
           THEN \E o \in send_key(opts.key.v, state, srvRange, symkc) :
                  /\ xlog' = xlog \o o.x
                  /\ symkc' = o.km
                  /\ calls' = Append(calls,
                                Call("send_key", opts.key.v, state, o.res, o.x))
                  /\ result' = o.res
           ELSE IF ~opts.key.some /\ opts.mouse_button.some
           THEN LET o == send_button(opts.mouse_button.v, state)
                IN  /\ xlog' = xlog \o o.x
                    /\ calls' = Append(calls,
                                  Call("send_button", <<opts.mouse_button.v>>,
                                       state, o.res, o.x))
                    /\ result' = o.res
                    /\ UNCHANGED symkc
           ELSE /\ result' = "Panic"
                /\ UNCHANGED <<xlog, symkc, calls>>
    /\ pc' = "drop"
    /\ UNCHANGED <<argv, opts, display, srvRange, kcsym, stdout, exitCode>>

\* main returns (Ok, Err through `?`, or unwinding): display goes out of scope
MainDrop ==
    /\ pc = "drop"
    /\ xlog' = xlog \o drop
    /\ display' = "dropped"
    /\ exitCode' = ExitCode(result)
    /\ pc' = "done"
    /\ UNCHANGED <<argv, opts, srvRange, symkc, kcsym, calls, stdout, result>>

Next == FromArgs \/ MainDisplayNew \/ MainDump \/ MainMatch \/ MainDrop

Spec == Init /\ [][Next]_vars

\* single thread, runs to completion
FairSpec == Spec /\ WF_vars(Next)

\* ------------------------------------------ a client of the Display type
ApiInit ==
    /\ argv = NoArgv
    /\ opts = NoOpts
    /\ pc = "new"
    /\ display = "none"
    /\ srvRange = <<0, 0>>
    /\ symkc = EmptyMap
    /\ kcsym = EmptyMap
    /\ xlog = <<>>
    /\ calls = <<>>
    /\ stdout = <<>>
    /\ result = "none"
    /\ exitCode = -1

ApiNew ==
    /\ pc = "new"
    /\ \E opened \in BOOLEAN :
         LET d == DisplayNew(opened)
         IN  /\ xlog' = xlog \o d.x
             /\ result' = d.res
             /\ IF d.res = "Ok"
                THEN /\ display' = "open"
                     /\ srvRange' \in ServerRanges
                     /\ pc' = "api"
                ELSE /\ pc' = "done"
                     /\ UNCHANGED <<display, srvRange>>
    /\ UNCHANGED <<argv, opts, symkc, kcsym, calls, stdout, exitCode>>

ApiSendKey ==
    /\ pc = "api"
    /\ Len(calls) < MaxCalls
    /\ \E key \in ApiKeyNames, state \in ButtonStates :
         \E o \in send_key(key, state, srvRange, symkc) :
           /\ xlog' = xlog \o o.x
           /\ symkc' = o.km
           /\ calls' = Append(calls, Call("send_key", key, state, o.res, o.x))
           /\ result' = o.res
    /\ UNCHANGED <<argv, opts, pc, display, srvRange, kcsym, stdout, exitCode>>

ApiSendButton ==
    /\ pc = "api"
    /\ Len(calls) < MaxCalls
    /\ \E button \in ApiButtons, state \in ButtonStates :
         LET o == send_button(button, state)
         IN  /\ xlog' = xlog \o o.x
             /\ calls' = Append(calls,
                           Call("send_button", <<button>>, state, o.res, o.x))
             /\ result' = o.res
    /\ UNCHANGED <<argv, opts, pc, display, srvRange, symkc, kcsym, stdout,
                   exitCode>>

ApiDrop ==
    /\ pc = "api"
    /\ xlog' = xlog \o drop
    /\ display' = "dropped"
    /\ pc' = "done"
    /\ UNCHANGED <<argv, opts, srvRange, symkc, kcsym, calls, stdout, result,
                   exitCode>>

ApiNext == ApiNew \/ ApiSendKey \/ ApiSendButton \/ ApiDrop

SpecApi == ApiInit /\ [][ApiNext]_vars

\* ================================================================ claims
Terminated == pc \in {"done", "exited"}

Opens == Count(xlog, "XOpenDisplay")
Closes == Count(xlog, "XCloseDisplay")
FakeEvents(log) == Count(log, "XTestFakeKeyEvent") + Count(log, "XTestFakeButtonEvent")

\* ---- C1
\* C1: in every run of main that chooses dump, send_key or send_button,
\* whether the operation returns Ok or Err, XOpenDisplay has been called once
\* and XCloseDisplay once when the process ends; and no run closes more often
\* than it opened.
C1_ReleasedExactlyOnce ==
    /\ (Terminated /\ Len(calls) >= 1) => (Opens = 1 /\ Closes = 1)
    /\ Closes <= Opens

C1_Witness ==
    /\ pc = "done"
    /\ Len(calls) = 1
    /\ calls[1].res = "KeyNotFound"
    /\ Opens = 1
    /\ Closes = 1

\* ---- C2
ActionsGiven(a) ==
    (IF a.key.some THEN 1 ELSE 0) + (IF a.mouse.some THEN 1 ELSE 0)
    + (IF a.dump THEN 1 ELSE 0)

\* not an optionally signed decimal numeral
NonNumeric(s) ==
    LET body == IF s # <<>> /\ s[1] \in {43, 45} THEN Tail(s) ELSE s
    IN  body = <<>> \/ \E i \in 1..Len(body) : body[i] < 48 \/ body[i] > 57

BadArgs(a) ==
    \/ ActionsGiven(a) # 1
    \/ a.mouse.some /\ NonNumeric(a.mouse.v)

\* C2: with zero or more than one of key / --mouse / --dump, or with a
\* non-numeric --mouse value, XOpenDisplay is never called, and the process
\* ends at argument validation.
C2_NoOpenOnBadArgs ==
    BadArgs(argv) => (Opens = 0 /\ pc \in {"from_args", "exited"})

C2_Witness ==
    /\ pc = "exited"
    /\ argv.key.some
    /\ argv.mouse.some
    /\ ~NonNumeric(argv.mouse.v)
    /\ Opens = 0

\* ---- C3
SendKeyCalls == {i \in 1..Len(calls) : calls[i].op = "send_key"}

\* the symbol table answered NoSymbol for the name of call c
AnsweredNoSymbol(c) ==
    \E j \in 1..Len(c.x) :
        c.x[j].f = "XStringToKeysym" /\ c.x[j].ret = <<0>>

\* C3: a send_key whose name the symbol table does not know fails with the
\* key-not-found error and makes no keycode lookup, no fake key event and no
\* flush.
C3_UnknownKeyNoEvent ==
    \A i \in SendKeyCalls :
        AnsweredNoSymbol(calls[i]) =>
            /\ calls[i].res = "KeyNotFound"
            /\ Count(calls[i].x, "XKeysymToKeycode") = 0
            /\ Count(calls[i].x, "XTestFakeKeyEvent") = 0
            /\ Count(calls[i].x, "XFlush") = 0

C3_Witness ==
    \E i \in SendKeyCalls :
        /\ calls[i].arg = NameBogus
        /\ AnsweredNoSymbol(calls[i])
        /\ calls[i].res = "KeyNotFound"

\* ---- C4
SendButtonCalls == {i \in 1..Len(calls) : calls[i].op = "send_button"}

\* C4: send_button(b, t) with b <= 10 succeeds with exactly one fake button
\* event for b and t followed by a flush; with b > 10 it fails with the
\* button-out-of-range error, without event or flush.
C4_ButtonRange ==
    \A i \in SendButtonCalls :
        LET c == calls[i]
            b == c.arg[1]
        IN  /\ (b >= 0 /\ b <= 10) =>
                /\ c.res = "Ok"
                /\ Len(c.x) = 2
                /\ c.x[1].f = "XTestFakeButtonEvent"
                /\ c.x[1].arg = <<b, IF c.state = "Pressed" THEN 1 ELSE 0>>
                /\ c.x[2].f = "XFlush"
            /\ b > 10 =>
                /\ c.res = "ButtonOutOfRange"
                /\ c.x = <<>>

C4_Witness ==
    /\ \E i \in SendButtonCalls : calls[i].arg[1] = 10 /\ calls[i].res = "Ok"
    /\ \E i \in SendButtonCalls :
           calls[i].arg[1] = 11 /\ calls[i].res = "ButtonOutOfRange"

\* ---- C5
\* name is a valid key name whose keycode on this connection is in the
\* server's keycode interval
InKeymap(name) ==
    LET keysym == XStringToKeysym(name)
    IN  /\ keysym # NoSymbol
        /\ keysym \in DOMAIN symkc
        /\ srvRange[1] <= symkc[keysym]
        /\ symkc[keysym] <= srvRange[2]

KeyEventArgs(log) ==
    LET ev == SelectSeq(log, LAMBDA e : e.f = "XTestFakeKeyEvent")
    IN  [j \in 1..Len(ev) |-> ev[j].arg]

EndsWithEventThenFlush(log) ==
    /\ Len(log) >= 2
    /\ log[Len(log) - 1].f = "XTestFakeKeyEvent"
    /\ log[Len(log)].f = "XFlush"
    /\ Count(log, "XFlush") = 1

PressThenRelease(i) ==
    /\ calls[i].op = "send_key"
    /\ calls[i + 1].op = "send_key"
    /\ calls[i].arg = calls[i + 1].arg
    /\ calls[i].state = "Pressed"
    /\ calls[i + 1].state = "Released"
    /\ InKeymap(calls[i].arg)

\* C5: for a key name present in the keymap, send_key(name, Pressed) followed
\* by send_key(name, Released) succeeds twice and issues exactly two fake key
\* events, for the same keycode, Pressed then Released, each followed by a
\* flush before its call returns.
C5_PressThenRelease ==
    \A i \in 1..(Len(calls) - 1) :
        PressThenRelease(i) =>
            LET keycode == symkc[XStringToKeysym(calls[i].arg)]
            IN  /\ calls[i].res = "Ok"
                /\ calls[i + 1].res = "Ok"
                /\ KeyEventArgs(calls[i].x) = << <<keycode, 1>> >>
                /\ KeyEventArgs(calls[i + 1].x) = << <<keycode, 0>> >>
                /\ EndsWithEventThenFlush(calls[i].x)
                /\ EndsWithEventThenFlush(calls[i + 1].x)

C5_Witness ==
    /\ Len(calls) >= 2
    /\ PressThenRelease(1)
    /\ calls[1].arg = NameUp
    /\ Len(KeyEventArgs(xlog)) = 2

\* ---- C6
DumpDone == Len(calls) = 1 /\ calls[1].op = "dump"

DumpCodes == srvRange[1]..srvRange[2]

\* keycode n carries a keysym with a name that is printable text
Named(n) ==
    LET name == XKeysymToString(kcsym[n])
    IN  ~name.null /\ to_str(name.s)

\* number of named keycodes up to and including n
Rank(n) == Cardinality({m \in DumpCodes : m <= n /\ Named(m)})

\* C6: dump prints exactly one line per keycode in [min,max] whose keysym has
\* a name, in keycode order, skipping the others and keeping duplicates; it
\* returns normally (exit status 0) and issues no fake event and no flush.
C6_DumpOutput ==
    DumpDone =>
        /\ Len(stdout) = Cardinality({n \in DumpCodes : Named(n)})
        /\ \A n \in DumpCodes :
               Named(n) => stdout[Rank(n)] = XKeysymToString(kcsym[n]).s
        /\ result = "Ok"
        /\ FakeEvents(xlog) = 0
        /\ Count(xlog, "XFlush") = 0
        /\ pc = "done" => exitCode = 0

\* a dump whose last keycode is named, with a duplicate and a skipped keycode
C6_Witness ==
    /\ DumpDone
    /\ pc = "done"
    /\ srvRange[2] - srvRange[1] >= 2
    /\ Named(srvRange[2])
    /\ \E n \in DumpCodes : ~Named(n)
    /\ \E n, m \in DumpCodes : n < m /\ Named(n) /\ kcsym[n] = kcsym[m]
    /\ Len(stdout) >= 2

\* ---- C7
ValidationOk == pc # "from_args" /\ pc # "exited"
OpenOk == Opens = 1 /\ xlog[1].ret = <<1>>
OperationOk == Len(calls) = 1 /\ calls[1].res = "Ok"

LookupAt(c) == CHOOSE j \in 1..Len(c.x) : c.x[j].f = "XKeysymToKeycode"
HasLookup(c) == \E j \in 1..Len(c.x) : c.x[j].f = "XKeysymToKeycode"

\* C8: a send_key whose keycode lies outside the interval [min,max] queried
\* after the keycode lookup (keycode 0 included) fails with the
\* keycode-not-found error, without fake event or flush; a keycode inside the
\* interval never gives that error.
C8_KeycodeOutOfRange ==
    \A i \in SendKeyCalls :
        HasLookup(calls[i]) =>
            LET c == calls[i]
                j == LookupAt(c)
                keycode == c.x[j].ret[1]
            IN  /\ Len(c.x) > j
                /\ c.x[j + 1].f = "XDisplayKeycodes"
                /\ LET min == c.x[j + 1].ret[1]
                       max == c.x[j + 1].ret[2]
                   IN  IF keycode < min \/ keycode > max
                       THEN /\ c.res = "KeycodeNotFound"
                            /\ FakeEvents(c.x) = 0
                            /\ Count(c.x, "XFlush") = 0
                       ELSE c.res = "Ok"

C8_Witness ==
    /\ \E i \in SendKeyCalls :
           /\ HasLookup(calls[i])
           /\ calls[i].x[LookupAt(calls[i])].ret = <<0>>
           /\ calls[i].res = "KeycodeNotFound"
    /\ \E i \in SendKeyCalls :
           /\ HasLookup(calls[i])
           /\ calls[i].x[LookupAt(calls[i])].ret[1] > srvRange[2]
           /\ calls[i].res = "KeycodeNotFound"

\* ---- C9
IsFake(e) == e.f \in {"XTestFakeKeyEvent", "XTestFakeButtonEvent"}

RunInOrder ==
    /\ Opens <= 1
    /\ Closes <= 1
    /\ Count(xlog, "XFlush") <= 1
    /\ Len(calls) <= 1
    /\ \A i \in 1..Len(xlog) :
           /\ xlog[i].f = "XOpenDisplay" => i = 1
           /\ i > 1 => (xlog[1].f = "XOpenDisplay" /\ xlog[1].ret = <<1>>)
           /\ xlog[i].f = "XCloseDisplay" => i = Len(xlog)
           /\ xlog[i].f = "XFlush" => (i > 1 /\ IsFake(xlog[i - 1]))
    /\ Len(xlog) >= 1 => xlog[1].f = "XOpenDisplay"
    /\ Terminated => (Opens = 1 /\ xlog[1].ret = <<1>> => Closes = 1)

\* C9: every run performs at most one connection open, one operation, one
\* flush and one close, in that order: nothing before the open succeeds,
\* nothing after the close, a flush only right after a fake event; and the
\* run terminates.
C9_SequentialRun == []RunInOrder /\ <>Terminated

C9_Witness ==
    /\ pc = "done"
    /\ Opens = 1
    /\ Len(calls) = 1
    /\ Count(xlog, "XFlush") = 1
    /\ Closes = 1

\* ---- C10
Dispatched == pc = "drop" \/ (pc = "done" /\ display = "dropped")

ExpectedState == IF argv.release THEN "Released" ELSE "Pressed"

\* C10: for every accepted argument combination main dispatches to exactly
\* one of dump, send_key, send_button (the one the arguments name, with the
\* given key or button), with transition Released under --release and Pressed
\* otherwise, and never reaches the unreachable!() branch.
C10_DispatchOne ==
    /\ result # "Panic"
    /\ Dispatched =>
        /\ Len(calls) = 1
        /\ ActionsGiven(argv) = 1
        /\ argv.dump => calls[1].op = "dump"
        /\ argv.key.some =>
            /\ calls[1].op = "send_key"
            /\ calls[1].arg = argv.key.v
            /\ calls[1].state = ExpectedState
        /\ argv.mouse.some =>
            /\ calls[1].op = "send_button"
            /\ ~NonNumeric(argv.mouse.v)
            /\ calls[1].arg = <<DigitsValue(StripZeros(
                   IF argv.mouse.v[1] = 43 THEN Tail(argv.mouse.v)
                   ELSE argv.mouse.v))>>
            /\ calls[1].state = ExpectedState

C10_Witness ==
    /\ Dispatched
    /\ Len(calls) = 1
    /\ calls[1].op = "send_button"
    /\ calls[1].state = "Released"
    /\ argv.release

====
